---- MODULE Spec2Model ----
(***************************************************************************)
(* A model of src/app.py: the header-block extractors (extract_from_eml,   *)
(* extract_from_msg), the header field parser (parse_headers) and the      *)
(* module-level upload loop.                                               *)
(*                                                                         *)
(* Text and byte strings are sequences of one-character strings.  Python   *)
(* values are tagged records: [t |-> "str", v |-> chars], [t |-> "bytes",  *)
(* v |-> bytes], [t |-> "dict", v |-> <<key, value>> pairs], [t |->        *)
(* "none"], and so on.                                                     *)
(***************************************************************************)
EXTENDS Integers, Sequences, FiniteSets, TLC

VARIABLES
    uploaded_files,  \* the batch: a sequence of [name, data] (line 27)
    idx,             \* position of the for loop of line 147 (1-based)
    pc,              \* where the script is
    tmpfiles,        \* the temporary files that exist, by loop position
    removeTried,     \* the temporary files os.remove was called on
    headers,         \* the global `headers` of lines 149/155
    results,         \* the global `results` of line 144
    call,            \* the last extract_from_msg call, while its locals live
    parsed           \* the global `parsed` of line 161

vars == <<uploaded_files, idx, pc, tmpfiles, removeTried, headers, results,
          call, parsed>>

-----------------------------------------------------------------------------
(* Characters                                                              *)

BS  == "\\"
LF  == "\n"
CR  == "\r"
TAB == "\t"
DQ  == "\""
\* the byte 0xFF, and the character U+00FF that latin1 decodes it to
XFF == "0xFF"
UFF == "U+00FF"

UpperChars == <<"A","B","C","D","E","F","G","H","I","J","K","L","M",
                "N","O","P","Q","R","S","T","U","V","W","X","Y","Z">>
LowerChars == <<"a","b","c","d","e","f","g","h","i","j","k","l","m",
                "n","o","p","q","r","s","t","u","v","w","x","y","z">>

\* str.lower() / re.IGNORECASE folding of one character
LowerChar(c) ==
    IF \E i \in 1..26 : UpperChars[i] = c
    THEN LowerChars[CHOOSE i \in 1..26 : UpperChars[i] = c]
    ELSE c

Lower(s) == [i \in 1..Len(s) |-> LowerChar(s[i])]

\* the characters str.strip() removes
Whitespace == {" ", TAB, LF, CR}

-----------------------------------------------------------------------------
(* Python values                                                           *)

NoneVal     == [t |-> "none"]
Str(v)      == [t |-> "str", v |-> v]
Bytes(v)    == [t |-> "bytes", v |-> v]
Dict(v)     == [t |-> "dict", v |-> v]

NoResult == [t |-> "none"]
NoCall   == [t |-> "none"]

\* truthiness of a str-or-None value (`if headers_text`, `headers or ""`)
Truthy(x) == x.t = "str" /\ x.v # <<>>

-----------------------------------------------------------------------------
(* String primitives                                                       *)

MinOf(S) == CHOOSE x \in S : \A y \in S : x <= y
MaxOf(S) == CHOOSE x \in S : \A y \in S : x >= y

StartsWithAt(s, p, pat) ==
    /\ p + Len(pat) - 1 <= Len(s)
    /\ \A k \in 1..Len(pat) : s[p + k - 1] = pat[k]

\* the same under re.IGNORECASE; pat is given in lower case
IStartsWithAt(s, p, pat) ==
    /\ p + Len(pat) - 1 <= Len(s)
    /\ \A k \in 1..Len(pat) : LowerChar(s[p + k - 1]) = pat[k]

\* str.find: first position of pat in s, 0 when absent
Find(s, pat) ==
    LET P == {p \in 1..Len(s) : StartsWithAt(s, p, pat)}
    IN  IF P = {} THEN 0 ELSE MinOf(P)

\* first position q >= p whose character is in `stop`, Len(s)+1 when none
RunEnd(s, p, stop) ==
    LET Q == {q \in p..Len(s) : s[q] \in stop}
    IN  IF Q = {} THEN Len(s) + 1 ELSE MinOf(Q)

RECURSIVE ReplaceFrom(_, _, _, _)
\* left to right, from one occurrence of `old` to the next
ReplaceFrom(s, p, old, new) ==
    LET Q == {q \in p..Len(s) : StartsWithAt(s, q, old)}
    IN  IF Q = {} THEN SubSeq(s, p, Len(s))
        ELSE LET q == MinOf(Q)
             IN  SubSeq(s, p, q - 1) \o new \o ReplaceFrom(s, q + Len(old), old, new)

\* str.replace(old, new), old non-empty
Replace(s, old, new) == ReplaceFrom(s, 1, old, new)

\* str.strip(chars)
StripChars(s, chars) ==
    LET keep == {i \in 1..Len(s) : s[i] \notin chars}
    IN  IF keep = {} THEN <<>> ELSE SubSeq(s, MinOf(keep), MaxOf(keep))

Strip(s) == StripChars(s, Whitespace)

RECURSIVE JoinWith(_, _)
\* sep.join(parts)
JoinWith(parts, sep) ==
    IF parts = <<>> THEN <<>>
    ELSE IF Len(parts) = 1 THEN parts[1]
    ELSE parts[1] \o sep \o JoinWith(Tail(parts), sep)

\* s.split(sep, 1)[0]
SplitFirst(s, sep) ==
    LET p == Find(s, sep)
    IN  IF p = 0 THEN s ELSE SubSeq(s, 1, p - 1)

-----------------------------------------------------------------------------
(* Decoding                                                                *)

\* bytes.decode("latin1", "ignore"): every byte is a character
DecodeLatin1(b) == [i \in 1..Len(b) |-> IF b[i] = XFF THEN UFF ELSE b[i]]

\* bytes.decode("utf-8", errors="ignore"): a lone 0xFF is never valid UTF-8
\* and is dropped; ASCII bytes decode to themselves
DecodeUtf8Ignore(b) == SelectSeq(b, LAMBDA x : x # XFF)

-----------------------------------------------------------------------------
(* extract_from_eml, lines 31-37                                           *)

\* the separator of lines 37 and 75: the four characters \ n \ n
EscapedBlankLine == <<BS, "n", BS, "n">>

extract_from_eml(raw) == Str(SplitFirst(DecodeUtf8Ignore(raw), EscapedBlankLine))

-----------------------------------------------------------------------------
(* email.utils.parseaddr, as called on lines 131 and 138.  The address     *)
(* part of the first address of the field is modelled, for fields of       *)
(* atoms, quoted strings, angle brackets, "@", "." and white space         *)
(* (comments, groups and domain literals do not occur in the fields the    *)
(* model parses).                                                          *)

LWS        == {" ", TAB}
CRLFChars  == {CR, LF}
Specials   == {"(", ")", "<", ">", "@", ",", ":", ";", ".", DQ, "[", "]"}
AtomEnds   == Specials \cup LWS \cup CRLFChars
PhraseEnds == AtomEnds \ {"."}

RECURSIVE GotoNextFrom(_, _, _)
GotoNextFrom(f, p, ws) ==
    IF p <= Len(f) /\ f[p] \in (LWS \cup CRLFChars)
    THEN GotoNextFrom(f, p + 1, IF f[p] \in CRLFChars THEN ws ELSE Append(ws, f[p]))
    ELSE [pos |-> p, ws |-> ws]

\* AddrlistClass.gotonext: skip white space, return what was skipped
GotoNext(f, p) == GotoNextFrom(f, p, <<>>)

\* AddrlistClass.getatom
GetAtom(f, p, ends) ==
    LET q == RunEnd(f, p, ends)
    IN  [pos |-> q, val |-> SubSeq(f, p, q - 1)]

RECURSIVE GetDelimited(_, _, _, _)
GetDelimited(f, p, quoted, acc) ==
    IF p > Len(f) THEN [pos |-> p, val |-> acc]
    ELSE IF quoted THEN GetDelimited(f, p + 1, FALSE, Append(acc, f[p]))
    ELSE IF f[p] \in {DQ, CR} THEN [pos |-> p + 1, val |-> acc]
    ELSE IF f[p] = BS THEN GetDelimited(f, p + 1, TRUE, acc)
    ELSE GetDelimited(f, p + 1, FALSE, Append(acc, f[p]))

\* AddrlistClass.getquote, entered at a double quote
GetQuote(f, p) == GetDelimited(f, p + 1, FALSE, <<>>)

\* email.utils.quote
QuoteStr(s) == Replace(Replace(s, <<BS>>, <<BS, BS>>), <<DQ>>, <<BS, DQ>>)

RECURSIVE GetPhraseList(_, _, _)
GetPhraseList(f, p, plist) ==
    IF p > Len(f) THEN [pos |-> p, plist |-> plist]
    ELSE IF f[p] \in (LWS \cup CRLFChars) THEN GetPhraseList(f, p + 1, plist)
    ELSE IF f[p] = DQ
         THEN LET q == GetQuote(f, p)
              IN  GetPhraseList(f, q.pos, Append(plist, q.val))
    ELSE IF f[p] \in PhraseEnds THEN [pos |-> p, plist |-> plist]
    ELSE LET a == GetAtom(f, p, PhraseEnds)
         IN  GetPhraseList(f, a.pos, Append(plist, a.val))

RECURSIVE GetDomain(_, _, _)
GetDomain(f, p, acc) ==
    IF p > Len(f) THEN [pos |-> p, val |-> acc]
    ELSE IF f[p] \in LWS THEN GetDomain(f, p + 1, acc)
    ELSE IF f[p] = "." THEN GetDomain(f, p + 1, Append(acc, "."))
    ELSE IF f[p] = "@" THEN [pos |-> p, val |-> <<>>]
    ELSE IF f[p] \in AtomEnds THEN [pos |-> p, val |-> acc]
    ELSE LET a == GetAtom(f, p, AtomEnds)
         IN  GetDomain(f, a.pos, acc \o a.val)

\* `if aslist and not aslist[-1].strip(): aslist.pop()`
PopBlank(aslist) ==
    IF aslist # <<>> /\ Strip(aslist[Len(aslist)]) = <<>>
    THEN SubSeq(aslist, 1, Len(aslist) - 1)
    ELSE aslist

RECURSIVE AddrSpecLocal(_, _, _)
\* the while loop of getaddrspec: the local part, as a list of pieces
AddrSpecLocal(f, p, aslist) ==
    IF p > Len(f) THEN [pos |-> p, aslist |-> aslist]
    ELSE IF f[p] = "."
         THEN AddrSpecLocal(f, GotoNext(f, p + 1).pos, Append(PopBlank(aslist), <<".">>))
    ELSE IF f[p] \in AtomEnds /\ f[p] # DQ
         THEN [pos |-> p, aslist |-> PopBlank(aslist)]
    ELSE LET a  == IF f[p] = DQ
                   THEN LET q == GetQuote(f, p)
                        IN  [pos |-> q.pos, val |-> <<DQ>> \o QuoteStr(q.val) \o <<DQ>>]
                   ELSE GetAtom(f, p, AtomEnds)
             g  == GotoNext(f, a.pos)
             as == Append(aslist, a.val)
         IN  AddrSpecLocal(f, g.pos, IF g.ws # <<>> THEN Append(as, g.ws) ELSE as)

\* AddrlistClass.getaddrspec
GetAddrSpec(f, p) ==
    LET l     == AddrSpecLocal(f, GotoNext(f, p).pos, <<>>)
        local == JoinWith(l.aslist, <<>>)
    IN  IF l.pos > Len(f) \/ f[l.pos] # "@"
        THEN [pos |-> l.pos, val |-> local]
        ELSE LET d == GetDomain(f, GotoNext(f, l.pos + 1).pos, <<>>)
             IN  IF d.val = <<>>
                 THEN [pos |-> d.pos, val |-> <<>>]
                 ELSE [pos |-> d.pos, val |-> local \o <<"@">> \o d.val]

RECURSIVE RouteAddrLoop(_, _, _)
RouteAddrLoop(f, p, expectroute) ==
    IF p > Len(f) THEN <<>>
    ELSE IF expectroute
         THEN RouteAddrLoop(f, GotoNext(f, GetDomain(f, p, <<>>).pos).pos, FALSE)
    ELSE IF f[p] = ">" THEN <<>>
    ELSE IF f[p] = "@" THEN RouteAddrLoop(f, GotoNext(f, p + 1).pos, TRUE)
    ELSE IF f[p] = ":" THEN RouteAddrLoop(f, GotoNext(f, p + 1).pos, FALSE)
    ELSE GetAddrSpec(f, p).val

\* AddrlistClass.getrouteaddr, entered at "<"
GetRouteAddr(f, p) == RouteAddrLoop(f, GotoNext(f, p + 1).pos, FALSE)

\* parseaddr(field)[1]: the address of the first address of the field
parseaddr(f) ==
    LET oldpos == GotoNext(f, 1).pos
        ph     == GetPhraseList(f, oldpos, <<>>)
        p      == GotoNext(f, ph.pos).pos
        first  == IF ph.plist # <<>> THEN ph.plist[1] ELSE <<>>
    IN  IF p > Len(f) THEN first
        ELSE IF f[p] \in {".", "@"} THEN GetAddrSpec(f, oldpos).val
        ELSE IF f[p] = "<" THEN GetRouteAddr(f, p)
        ELSE first

-----------------------------------------------------------------------------
(* parse_headers, lines 101-142                                            *)

\* where (?m)^ matches: at the start and after every line feed
LineStarts(s) == {p \in 1..(Len(s) + 1) : p = 1 \/ s[p - 1] = LF}

\* the `s*` that the patterns' `\\s*` is: a run of the letter s (or S)
SkipLetterS(s, p) ==
    LET Q == {q \in p..Len(s) : LowerChar(s[q]) # "s"}
    IN  IF Q = {} THEN Len(s) + 1 ELSE MinOf(Q)

\* (?mi)^<name>\\s* : the position after the first match, 0 when none.
\* The pattern wants a backslash right after the colon.
HeaderPrefixEnd(s, name) ==
    LET P == {p \in LineStarts(s) :
                 /\ IStartsWithAt(s, p, name)
                 /\ p + Len(name) <= Len(s)
                 /\ s[p + Len(name)] = BS}
    IN  IF P = {} THEN 0 ELSE SkipLetterS(s, MinOf(P) + Len(name) + 1)

RECURSIVE DkimGroupEnd(_, _)
\* ((?:[^\\n]|\\n[ \\t])*) under (?i): any character but backslash and n/N,
\* or backslash, n/N and one of space, backslash, t/T
DkimGroupEnd(s, p) ==
    LET Q == {r \in p..Len(s) : s[r] = BS \/ LowerChar(s[r]) = "n"}
        q == IF Q = {} THEN Len(s) + 1 ELSE MinOf(Q)
    IN  IF /\ q + 2 <= Len(s)
           /\ s[q] = BS
           /\ LowerChar(s[q + 1]) = "n"
           /\ (s[q + 2] \in {" ", BS} \/ LowerChar(s[q + 2]) = "t")
        THEN DkimGroupEnd(s, q + 3)
        ELSE q

\* re.search(r"(?mi)^dkim-signature:\\s*((?:[^\\n]|\\n[ \\t])*)", text), line 118
DkimSearch(text) ==
    LET q == HeaderPrefixEnd(text, Lower(<<"d","k","i","m","-","s","i","g","n","a","t","u","r","e",":">>))
    IN  IF q = 0 THEN [found |-> FALSE, group |-> <<>>]
        ELSE [found |-> TRUE, group |-> SubSeq(text, q, DkimGroupEnd(text, q) - 1)]

\* re.search(r"\\b<tag>=([^;\\s]+)", dkim), lines 121-122: backslash, b, the
\* tag and "=", then one or more characters other than ";", backslash and s
TagSearch(dkim, tag) ==
    LET stop == {";", BS, "s"}
        P    == {p \in 1..Len(dkim) :
                    /\ StartsWithAt(dkim, p, <<BS, "b", tag, "=">>)
                    /\ p + 4 <= Len(dkim)
                    /\ dkim[p + 4] \notin stop}
    IN  IF P = {} THEN [found |-> FALSE, group |-> <<>>]
        ELSE LET p == MinOf(P)
             IN  [found |-> TRUE,
                  group |-> SubSeq(dkim, p + 4, RunEnd(dkim, p + 4, stop) - 1)]

\* re.search(r"(?mi)^<name>\\s*(.*)", text), lines 129 and 136
LineSearch(text, name) ==
    LET q == HeaderPrefixEnd(text, name)
    IN  IF q = 0 THEN [found |-> FALSE, group |-> <<>>]
        ELSE [found |-> TRUE, group |-> SubSeq(text, q, RunEnd(text, q, {LF}) - 1)]

\* lines 131-133 / 138-140: the lowercased text after the first "@"
DomainOf(field) ==
    LET addr == parseaddr(field)
        at   == Find(addr, <<"@">>)
    IN  IF at = 0 THEN <<>> ELSE Lower(SubSeq(addr, at + 1, Len(addr)))

\* line 114: replaces the character pairs \r\n and \r spelled with backslashes
NormalizeLineEndings(text) ==
    Replace(Replace(text, <<BS, "r", BS, "n">>, <<BS, "n">>), <<BS, "r">>, <<BS, "n">>)

\* a variant of line 107 that tests `is not None` instead of truthiness
HeaderPresentIfNotNone(headers_text) ==
    IF headers_text.t = "str" THEN "yes" ELSE "no"

\* line 107
HeaderPresent(headers_text) == IF Truthy(headers_text) THEN "yes" ELSE "no"

parse_headers(headers_text) ==
    LET res == [dkim_domain |-> <<>>, dkim_selector |-> <<>>,
                from_domain |-> <<>>, returnpath_domain |-> <<>>,
                header_present |-> HeaderPresent(headers_text)]
    IN  IF ~Truthy(headers_text) THEN res
        ELSE
        LET text == NormalizeLineEndings(headers_text.v)
            dkim == DkimSearch(text)
            d    == TagSearch(dkim.group, "d")
            sel  == TagSearch(dkim.group, "s")
            fm   == LineSearch(text, <<"f","r","o","m",":">>)
            rp   == LineSearch(text, <<"r","e","t","u","r","n","-","p","a","t","h",":">>)
        IN  [res EXCEPT
               !.dkim_domain = IF dkim.found /\ d.found
                               THEN StripChars(Strip(d.group), {DQ}) ELSE @,
               !.dkim_selector = IF dkim.found /\ sel.found
                                 THEN StripChars(Strip(sel.group), {DQ}) ELSE @,
               !.from_domain = IF fm.found THEN DomainOf(fm.group) ELSE @,
               !.returnpath_domain = IF rp.found THEN DomainOf(rp.group) ELSE @]

-----------------------------------------------------------------------------
(* extract_from_msg, lines 39-99.  The container library is outside the    *)
(* repository: a container m says whether extract_msg.Message(path) opens, *)
(* and what each attribute of the opened object does when it is touched.   *)

\* line 53
attrs_to_check ==
    <<"header", "headers", "get_headers", "get_header", "get_email_headers",
      "headers_string">>

\* what touching an attribute can do
Absent         == [t |-> "absent"]           \* no such attribute
PropertyRaises == [t |-> "property_raises"]  \* a property raising, not AttributeError
Callable(ret)  == [t |-> "callable", ret |-> ret]
CallRaises     == [t |-> "call_raises"]      \* what a failing method "returns"

\* line 61: "\\n".join(f"{k}: {v}" for k, v in h.items())
RenderDict(items) ==
    JoinWith([i \in 1..Len(items) |-> items[i][1] \o <<":", " ">> \o items[i][2]],
             <<BS, "n">>)

\* lines 57-65 for one attribute that hasattr found: the candidates it adds
CandidateOf(outcome) ==
    LET h0 == IF outcome.t = "callable" THEN outcome.ret ELSE outcome
        h1 == IF h0.t = "dict" THEN Str(RenderDict(h0.v)) ELSE h0
        h2 == IF h1.t = "bytes" THEN Str(DecodeLatin1(h1.v)) ELSE h1
    IN  IF h0.t = "call_raises" THEN <<>>               \* lines 66-68
        ELSE IF h2.t = "str" /\ Strip(h2.v) # <<>> THEN <<h2.v>>
        ELSE <<>>

RECURSIVE ProbeAttrs(_, _, _)
\* the for loop of lines 54-68 from attribute k on; hasattr (line 55) is
\* outside the try, so what a property raises there leaves the function
ProbeAttrs(m, k, candidates) ==
    IF k > Len(attrs_to_check) THEN [raised |-> FALSE, candidates |-> candidates]
    ELSE LET outcome == m.attrs[attrs_to_check[k]]
         IN  IF outcome.t = "absent" THEN ProbeAttrs(m, k + 1, candidates)
             ELSE IF outcome.t = "property_raises"
                  THEN [raised |-> TRUE, candidates |-> candidates]
             ELSE ProbeAttrs(m, k + 1, candidates \o CandidateOf(outcome))

\* lines 71-79: the raw_msg probe, all of it inside one try
ProbeRawMsg(m) ==
    IF m.raw_msg.t = "bytes"
    THEN LET part == SplitFirst(DecodeLatin1(m.raw_msg.v), EscapedBlankLine)
         IN  IF Strip(part) # <<>> THEN <<part>> ELSE <<>>
    ELSE <<>>

RECURSIVE InsertByLenDesc(_, _)
\* x goes after every element that is at least as long
InsertByLenDesc(sorted, x) ==
    IF sorted = <<>> THEN <<x>>
    ELSE IF Len(Head(sorted)) >= Len(x)
         THEN <<Head(sorted)>> \o InsertByLenDesc(Tail(sorted), x)
         ELSE <<x>> \o sorted

RECURSIVE InsertByLenDescFirst(_, _)
\* x goes before the elements of its own length
InsertByLenDescFirst(sorted, x) ==
    IF sorted = <<>> THEN <<x>>
    ELSE IF Len(Head(sorted)) > Len(x)
         THEN <<Head(sorted)>> \o InsertByLenDescFirst(Tail(sorted), x)
         ELSE <<x>> \o sorted

RECURSIVE SortedPrefixFirst(_, _)
SortedPrefixFirst(cands, k) ==
    IF k = 0 THEN <<>>
    ELSE InsertByLenDescFirst(SortedPrefixFirst(cands, k - 1), cands[k])

\* a variant of line 83 that sorts ascending and reverses: among the
\* longest, the last one seen comes first
SortedReversed(candidates) == SortedPrefixFirst(candidates, Len(candidates))

RECURSIVE SortedPrefix(_, _)
\* the first k candidates, sorted
SortedPrefix(cands, k) ==
    IF k = 0 THEN <<>>
    ELSE InsertByLenDesc(SortedPrefix(cands, k - 1), cands[k])

\* line 83: sorted(candidates, key=lambda s: len(s or ""), reverse=True),
\* a stable sort
SortedByLenDesc(candidates) == SortedPrefix(candidates, Len(candidates))

\* re.split(r"\\r?\\n\\r?\\n", decoded, maxsplit=1)[0], line 93: the pattern
\* is backslash, an optional r, backslash, n, twice
FallbackSplit(decoded) ==
    LET Half(p) == IF StartsWithAt(decoded, p, <<BS, "r", BS, "n">>) THEN p + 4
                   ELSE IF StartsWithAt(decoded, p, <<BS, BS, "n">>) THEN p + 3
                   ELSE 0
        P == {p \in 1..Len(decoded) : Half(p) # 0 /\ Half(Half(p)) # 0}
    IN  IF P = {} THEN decoded ELSE SubSeq(decoded, 1, MinOf(P) - 1)

\* the call extract_from_msg(path): `data` is what the file at path holds.
\* raised: an exception left the function; ret: what it returned;
\* read_file: lines 88-89 were reached
extract_from_msg(data, m) ==
    IF m.open = "fails"                                  \* lines 45-48
    THEN [raised |-> FALSE, ret |-> NoneVal, candidates |-> <<>>, read_file |-> FALSE]
    ELSE
    LET probed == ProbeAttrs(m, 1, <<>>)
        cands  == probed.candidates \o ProbeRawMsg(m)
        part   == FallbackSplit(DecodeLatin1(data))
    IN  IF probed.raised
        THEN [raised |-> TRUE, ret |-> NoneVal, candidates |-> probed.candidates,
              read_file |-> FALSE]
        ELSE IF cands # <<>>                              \* lines 81-84
        THEN [raised |-> FALSE, ret |-> Str(SortedByLenDesc(cands)[1]),
              candidates |-> cands, read_file |-> FALSE]
        ELSE [raised |-> FALSE,                           \* lines 87-99
              ret |-> IF Strip(part) # <<>> THEN Str(part) ELSE NoneVal,
              candidates |-> cands, read_file |-> TRUE]

-----------------------------------------------------------------------------
(* Header text for parse_headers: up to MaxLines lines joined by LF or     *)
(* CRLF.  The lines are the headers of spec section 8 as a mail carries    *)
(* them, and the same headers with the backslash the patterns of lines     *)
(* 118-136 ask for.                                                        *)

MaxLines == 2

\* From: "A" <a@Example.COM>
LineFromQuoted ==
    <<"F", "r", "o", "m", ":", " ", DQ, "A", DQ, " ", "<", "a", "@", "E",
      "x", "a", "m", "p", "l", "e", ".", "C", "O", "M", ">">>

\* From: not-an-address
LineFromNoAt ==
    <<"F", "r", "o", "m", ":", " ", "n", "o", "t", "-", "a", "n", "-", "a",
      "d", "d", "r", "e", "s", "s">>

\* From:\"A" <a@Example.COM>      (a backslash after the colon)
LineFromEscaped ==
    <<"F", "r", "o", "m", ":", BS, DQ, "A", DQ, " ", "<", "a", "@", "E", "x",
      "a", "m", "p", "l", "e", ".", "C", "O", "M", ">">>

\* from:\ssnot-an-address
LineFromEscapedNoAt ==
    <<"f", "r", "o", "m", ":", BS, "s", "s", "n", "o", "t", "-", "a", "n",
      "-", "a", "d", "d", "r", "e", "s", "s">>

\* DKIM-Signature: v=1; d=example.com;
LineDkimFirst ==
    <<"D", "K", "I", "M", "-", "S", "i", "g", "n", "a", "t", "u", "r", "e",
      ":", " ", "v", "=", "1", ";", " ", "d", "=", "e", "x", "a", "m", "p",
      "l", "e", ".", "c", "o", "m", ";">>

\* " s=sel1; bh=..."              (a folded continuation line)
LineDkimFold ==
    <<" ", "s", "=", "s", "e", "l", "1", ";", " ", "b", "h", "=", ".", ".",
      ".">>

\* DKIM-Signature: v=1; d=second.org; s=sel2
LineDkimSecond ==
    <<"D", "K", "I", "M", "-", "S", "i", "g", "n", "a", "t", "u", "r", "e",
      ":", " ", "v", "=", "1", ";", " ", "d", "=", "s", "e", "c", "o", "n",
      "d", ".", "o", "r", "g", ";", " ", "s", "=", "s", "e", "l", "2">>

\* dkim-signature: then the characters  \ \n\ bd=Ex.com; \n\ bs=k1  with
\* every backslash and n spelled out (no line break in it)
LineDkimEscaped ==
    <<"d", "k", "i", "m", "-", "s", "i", "g", "n", "a", "t", "u", "r", "e",
      ":", BS, BS, "n", BS, "b", "d", "=", "E", "x", ".", "c", "o", "m", ";",
      BS, "n", BS, "b", "s", "=", "k", "1">>

\* Return-Path: <x@Y.z>
LineReturnPath ==
    <<"R", "e", "t", "u", "r", "n", "-", "P", "a", "t", "h", ":", " ", "<",
      "x", "@", "Y", ".", "z", ">">>

\* Return-Path:\<x@Y.z>
LineReturnPathEscaped ==
    <<"R", "e", "t", "u", "r", "n", "-", "P", "a", "t", "h", ":", BS, "<",
      "x", "@", "Y", ".", "z", ">">>

\* X: y
LineOther ==
    <<"X", ":", " ", "y">>

HeaderLines ==
    {LineFromQuoted, LineFromNoAt, LineFromEscaped, LineFromEscapedNoAt,
     LineDkimFirst, LineDkimFold, LineDkimSecond, LineDkimEscaped,
     LineReturnPath, LineReturnPathEscaped, LineOther}

LineBreaks == {<<LF>>, <<CR, LF>>}

ParseInputs ==
    {NoneVal, Str(<<>>)} \cup
    {Str(JoinWith(ls, br)) :
        ls \in UNION {[1..n -> HeaderLines] : n \in 1..MaxLines},
        br \in LineBreaks}


(* parse_headers on its own: one call on one input *)
InitParse ==
    /\ uploaded_files = <<>>
    /\ idx = 1
    /\ pc = "parse_call"
    /\ tmpfiles = {}
    /\ removeTried = {}
    /\ headers \in ParseInputs
    /\ results = <<>>
    /\ call = NoCall
    /\ parsed = NoResult

CallParseHeaders ==
    /\ pc = "parse_call"
    /\ parsed' = parse_headers(headers)
    /\ pc' = "parse_done"
    /\ UNCHANGED <<uploaded_files, idx, tmpfiles, removeTried, headers,
                   results, call>>

NextParse == CallParseHeaders

SpecParse == InitParse /\ [][NextParse]_vars

-----------------------------------------------------------------------------
(* Containers for extract_from_msg: at most MaxExposed of the six names    *)
(* are exposed by the opened object, each behaving in one of the ways of   *)
(* AttrOutcomes.                                                           *)

MaxExposed == 2

AttrNames == {attrs_to_check[k] : k \in 1..Len(attrs_to_check)}

AttrOutcomes ==
    {PropertyRaises,
     Callable(CallRaises),
     Str(<<"a", "b">>),
     Callable(Str(<<"c", "d">>)),
     Bytes(<<"a", "b", XFF>>),
     Dict(<< << <<"a">>, <<"b">> >>, << <<"c">>, <<"d">> >> >>),
     Str(<<" ", " ">>),
     NoneVal}

\* raw_msg: missing, a property that raises, or the bytes  xy\n\nz  with
\* the backslashes and n spelled out
RawMsgOutcomes ==
    {Absent, PropertyRaises, Bytes(<<"x", "y", BS, "n", BS, "n", "z">>)}

AttrAssignments ==
    {[n \in AttrNames |-> IF n \in S THEN f[n] ELSE Absent] :
        <<S, f>> \in UNION {{<<S, f>> : f \in [S -> AttrOutcomes]} :
                               S \in {S \in SUBSET AttrNames : Cardinality(S) <= MaxExposed}}}

Containers ==
    {[open |-> "fails"]} \cup
    {[open |-> "ok", attrs |-> a, raw_msg |-> r] :
        a \in AttrAssignments, r \in RawMsgOutcomes}

\* From: a@b.com CR LF CR LF Body
MsgCrlf ==
    <<"F", "r", "o", "m", ":", " ", "a", "@", "b", ".", "c", "o", "m", CR,
      LF, CR, LF, "B", "o", "d", "y">>

\* H: v\\n\\nBody   with the backslashes and n spelled out
MsgEscaped ==
    <<"H", ":", " ", "v", BS, BS, "n", BS, BS, "n", "B", "o", "d", "y">>

\* two spaces
MsgBlank ==
    <<" ", " ">>

MsgFileData == {MsgCrlf, MsgEscaped, MsgBlank}

\* c.msg
NameMsg == <<"c", ".", "m", "s", "g">>

(* extract_from_msg on its own: one call on one temporary file *)
InitMsg ==
    /\ uploaded_files \in {<<[name |-> NameMsg, data |-> d]>> : d \in MsgFileData}
    /\ idx = 1
    /\ pc = "msg_call"
    /\ tmpfiles = {1}
    /\ removeTried = {}
    /\ headers = NoneVal
    /\ results = <<>>
    /\ call = NoCall
    /\ parsed = NoResult

CallExtractFromMsg ==
    /\ pc = "msg_call"
    /\ \E m \in Containers :
         LET r == extract_from_msg(uploaded_files[idx].data, m)
         IN  /\ call' = [t |-> "msg", m |-> m, candidates |-> r.candidates,
                         raised |-> r.raised, read_file |-> r.read_file]
             /\ headers' = IF r.raised THEN headers ELSE r.ret
             /\ pc' = IF r.raised THEN "msg_raised" ELSE "msg_returned"
    /\ UNCHANGED <<uploaded_files, idx, tmpfiles, removeTried, results, parsed>>

NextMsg == CallExtractFromMsg

SpecMsg == InitMsg /\ [][NextMsg]_vars

-----------------------------------------------------------------------------
(* The upload loop, lines 144-178                                          *)

MaxFiles == 2

\* a.eml
NameEmlA == <<"a", ".", "e", "m", "l">>
\* B.EML
NameEmlB == <<"B", ".", "E", "M", "L">>
\* e.eml
NameEmlE == <<"e", ".", "e", "m", "l">>
\* d.MSG
NameMsgD == <<"d", ".", "M", "S", "G">>

\* From: a@b.com CR LF CR LF Body text
EmlCrlf ==
    <<"F", "r", "o", "m", ":", " ", "a", "@", "b", ".", "c", "o", "m", CR,
      LF, CR, LF, "B", "o", "d", "y", " ", "t", "e", "x", "t">>

\* H: v\n\nBody   with the backslashes and n spelled out
EmlEscaped ==
    <<"H", ":", " ", "v", BS, "n", BS, "n", "B", "o", "d", "y">>

\* From:\a@B<0xFF>.com
EmlBadByte ==
    <<"F", "r", "o", "m", ":", BS, "a", "@", "B", XFF, ".", "c", "o", "m">>

Uploads ==
    {[name |-> NameEmlA, data |-> EmlCrlf],
     [name |-> NameEmlB, data |-> EmlEscaped],
     [name |-> NameEmlE, data |-> EmlBadByte],
     [name |-> NameMsg,  data |-> MsgCrlf],
     [name |-> NameMsgD, data |-> MsgBlank]}

EndsWith(s, suffix) ==
    Len(s) >= Len(suffix) /\ StartsWithAt(s, Len(s) - Len(suffix) + 1, suffix)

\* line 148: up.name.lower().endswith(".eml")
IsEml(name) == EndsWith(Lower(name), <<".", "e", "m", "l">>)

\* line 161: headers or ""
OrEmpty(h) == IF Truthy(h) THEN h ELSE Str(<<>>)

\* lines 163-166: {"filename": up.name, **parsed}
ResultRow(name, p) ==
    [filename |-> name, dkim_domain |-> p.dkim_domain,
     dkim_selector |-> p.dkim_selector, from_domain |-> p.from_domain,
     returnpath_domain |-> p.returnpath_domain,
     header_present |-> p.header_present]

Init ==
    /\ uploaded_files \in UNION {[1..n -> Uploads] : n \in 0..MaxFiles}
    /\ idx = 1
    /\ pc = "loop"
    /\ tmpfiles = {}
    /\ removeTried = {}
    /\ headers = NoneVal
    /\ results = <<>>
    /\ call = NoCall
    /\ parsed = NoResult

InLoop == pc = "loop" /\ idx <= Len(uploaded_files)

\* lines 148-149
EmlBranch ==
    /\ InLoop
    /\ IsEml(uploaded_files[idx].name)
    /\ headers' = extract_from_eml(uploaded_files[idx].data)
    /\ pc' = "parse"
    /\ UNCHANGED <<uploaded_files, idx, tmpfiles, removeTried, results, call, parsed>>

\* lines 150-154: the upload is written to a new temporary file
MsgWriteTemp ==
    /\ InLoop
    /\ ~IsEml(uploaded_files[idx].name)
    /\ tmpfiles' = tmpfiles \cup {idx}
    /\ pc' = "msg_extract"
    /\ UNCHANGED <<uploaded_files, idx, removeTried, headers, results, call, parsed>>

\* line 155: the call returns, or what it raises ends the script
MsgExtract ==
    /\ pc = "msg_extract"
    /\ \E m \in Containers :
         LET r == extract_from_msg(uploaded_files[idx].data, m)
         IN  IF r.raised
             THEN pc' = "crashed" /\ UNCHANGED headers
             ELSE pc' = "msg_remove" /\ headers' = r.ret
    /\ UNCHANGED <<uploaded_files, idx, tmpfiles, removeTried, results, call, parsed>>

\* lines 156-159: os.remove deletes the file, or fails and is ignored
MsgRemove ==
    /\ pc = "msg_remove"
    /\ removeTried' = removeTried \cup {idx}
    /\ \/ tmpfiles' = tmpfiles \ {idx}
       \/ UNCHANGED tmpfiles
    /\ pc' = "parse"
    /\ UNCHANGED <<uploaded_files, idx, headers, results, call, parsed>>

\* lines 161-166
ParseAppend ==
    /\ pc = "parse"
    /\ parsed' = parse_headers(OrEmpty(headers))
    /\ results' = Append(results, ResultRow(uploaded_files[idx].name, parsed'))
    /\ idx' = idx + 1
    /\ pc' = "loop"
    /\ UNCHANGED <<uploaded_files, tmpfiles, removeTried, headers, call>>

\* lines 168-176: the table and the download button
ShowTable ==
    /\ pc = "loop"
    /\ uploaded_files # <<>>
    /\ idx > Len(uploaded_files)
    /\ pc' = "done"
    /\ UNCHANGED <<uploaded_files, idx, tmpfiles, removeTried, headers, results, call, parsed>>

\* lines 177-178
ShowInfo ==
    /\ pc = "loop"
    /\ uploaded_files = <<>>
    /\ pc' = "done"
    /\ UNCHANGED <<uploaded_files, idx, tmpfiles, removeTried, headers, results, call, parsed>>

Next ==
    \/ EmlBranch
    \/ MsgWriteTemp
    \/ MsgExtract
    \/ MsgRemove
    \/ ParseAppend
    \/ ShowTable
    \/ ShowInfo

Spec == Init /\ [][Next]_vars

-----------------------------------------------------------------------------
(* Properties of the extractors and of the upload loop                     *)

\* the text before the first blank line, LF LF or CR LF CR LF; all of the
\* text when it has none
BeforeBlankLine(text) ==
    LET P == {p \in 1..Len(text) :
                 \/ StartsWithAt(text, p, <<LF, LF>>)
                 \/ StartsWithAt(text, p, <<CR, LF, CR, LF>>)}
    IN  IF P = {} THEN text ELSE SubSeq(text, 1, MinOf(P) - 1)

\* From: a@b.com
FromAB ==
    <<"F", "r", "o", "m", ":", " ", "a", "@", "b", ".", "c", "o", "m">>

\* C1: extract_from_msg returns None only when every strategy yielded
\* nothing (no candidate, and no text before the first blank line of the
\* file); when opening fails or no candidate was collected, a non-empty
\* text before the first blank line of the file is what is returned.
\* (Spec SpecMsg.)
C1_NoneOnlyAfterFallback ==
    pc = "msg_returned" =>
        LET text == BeforeBlankLine(DecodeLatin1(uploaded_files[idx].data))
        IN  /\ headers = NoneVal => (call.candidates = <<>> /\ Strip(text) = <<>>)
            /\ ((call.m.open = "fails" \/ call.candidates = <<>>) /\ Strip(text) # <<>>)
                   => headers = Str(text)

\* C5: on an opened container no probe failure leaves extract_from_msg, and
\* every attribute (and raw_msg) that yields non-empty text is among the
\* candidates, whatever the other attributes do.  (Spec SpecMsg.)
C5_ProbeFailuresIsolated ==
    (call.t = "msg" /\ call.m.open = "ok") =>
        LET Collected(c) == \E i \in 1..Len(call.candidates) : call.candidates[i] = c
            Yield(n)     == CandidateOf(call.m.attrs[n])
        IN  /\ ~call.raised
            /\ \A n \in AttrNames : Yield(n) # <<>> => Collected(Yield(n)[1])
            /\ ProbeRawMsg(call.m) # <<>> => Collected(ProbeRawMsg(call.m)[1])

\* C6: with one or more candidates, extract_from_msg returns a candidate of
\* maximal length, the first collected among those of that length; the file
\* is read only when there is no candidate.  (Spec SpecMsg.)
C6_LongestFirstSeen ==
    (pc = "msg_returned" /\ call.m.open = "ok") =>
        LET c == call.candidates
        IN  /\ c # <<>> =>
                 \E i \in 1..Len(c) :
                    /\ headers = Str(c[i])
                    /\ \A j \in 1..Len(c) : Len(c[j]) <= Len(c[i])
                    /\ \A j \in 1..(i - 1) : Len(c[j]) < Len(c[i])
            /\ call.read_file => c = <<>>

\* two different candidates share the maximal length, the first is returned
C6_Witness ==
    /\ pc = "msg_returned"
    /\ call.m.open = "ok"
    /\ \E i, j \in 1..Len(call.candidates) :
          /\ i < j
          /\ call.candidates[i] # call.candidates[j]
          /\ Len(call.candidates[i]) = Len(call.candidates[j])
          /\ \A k \in 1..Len(call.candidates) :
                Len(call.candidates[k]) <= Len(call.candidates[i])
          /\ \A k \in 1..(i - 1) :
                Len(call.candidates[k]) < Len(call.candidates[i])
          /\ headers = Str(call.candidates[i])

\* C2: outside the loop body (at the loop head, after the loop, or after the
\* script stopped on an exception) every temporary file that exists has had
\* its removal attempted.  (Spec Spec.)
C2_TempFileReleased ==
    pc \in {"loop", "done", "crashed"} => tmpfiles \subseteq removeTried

\* C3: when the script ends, results holds one record per uploaded file, in
\* upload order, and a record with header_present "no" has its four domain
\* fields empty.  (Spec Spec.)
C3_OneRecordPerUpload ==
    pc \in {"done", "crashed"} =>
        /\ Len(results) = Len(uploaded_files)
        /\ \A i \in 1..Len(results) :
              /\ results[i].filename = uploaded_files[i].name
              /\ results[i].header_present = "no" =>
                    /\ results[i].dkim_domain = <<>>
                    /\ results[i].dkim_selector = <<>>
                    /\ results[i].from_domain = <<>>
                    /\ results[i].returnpath_domain = <<>>

\* C4: extract_from_eml returns the decoded text before the first blank
\* line (LF LF or CR LF CR LF), all of it when there is none; for
\* From: a@b.com CR LF CR LF Body text that is From: a@b.com.  (Spec Spec.)
C4_EmlHeaderBlock ==
    (pc = "parse" /\ IsEml(uploaded_files[idx].name)) =>
        LET data == uploaded_files[idx].data
        IN  /\ headers = Str(BeforeBlankLine(DecodeUtf8Ignore(data)))
            /\ data = EmlCrlf => headers = Str(FromAB)

-----------------------------------------------------------------------------
(* Properties of parse_headers, checked under SpecParse                    *)

DomainFields == {"dkim_domain", "dkim_selector", "from_domain", "returnpath_domain"}

\* C7: for every input (None, empty or any text) parse_headers returns a
\* record with all five fields; header_present is "yes" exactly when the
\* supplied text is non-empty; and when it is "no" the four domain fields
\* are all empty.
C7_HeaderPresentIffNonEmpty ==
    pc = "parse_done" =>
        /\ DOMAIN parsed = DomainFields \cup {"header_present"}
        /\ parsed.header_present \in {"yes", "no"}
        /\ parsed.header_present = "yes" <=> (headers.t = "str" /\ Len(headers.v) > 0)
        /\ parsed.header_present = "no" => \A f \in DomainFields : parsed[f] = <<>>

\* a non-empty header text in which nothing was extracted is still "yes"
C7_Witness ==
    /\ pc = "parse_done"
    /\ headers = Str(LineOther)
    /\ parsed.header_present = "yes"
    /\ \A f \in DomainFields : parsed[f] = <<>>

(* What the claims C8-C10 say the parser does, written out independently   *)
(* of the patterns of lines 114-136.                                       *)

\* CRLF and lone CR become LF
LineFeedsOnly(text) == Replace(Replace(text, <<CR, LF>>, <<LF>>), <<CR>>, <<LF>>)

\* every LF becomes CRLF
WithCrlf(text) == Replace(text, <<LF>>, <<CR, LF>>)

\* start of the first line that begins, in any case, with `name`; 0 if none
FirstLineWith(text, name) ==
    LET P == {p \in LineStarts(text) : IStartsWithAt(text, p, name)}
    IN  IF P = {} THEN 0 ELSE MinOf(P)

\* the text from q to the end of its line
RestOfLine(text, q) == SubSeq(text, q, RunEnd(text, q, {LF}) - 1)

\* the text from q through the last continuation line (space or tab first)
FoldedValue(text, q) ==
    LET E == {r \in q..Len(text) :
                 /\ text[r] = LF
                 /\ (r = Len(text) \/ text[r + 1] \notin {" ", TAB})}
    IN  SubSeq(text, q, (IF E = {} THEN Len(text) + 1 ELSE MinOf(E)) - 1)

WordChars ==
    {LowerChars[i] : i \in 1..26} \cup
    {"0", "1", "2", "3", "4", "5", "6", "7", "8", "9", "_"}

\* the value of the token-like parameter tag= in a ";"-separated tag list
TagValue(value, tag) ==
    LET stop == {";"} \cup Whitespace
        P    == {p \in 1..Len(value) :
                    /\ p + 2 <= Len(value)
                    /\ value[p] = tag
                    /\ value[p + 1] = "="
                    /\ (p = 1 \/ LowerChar(value[p - 1]) \notin WordChars)
                    /\ value[p + 2] \notin stop}
    IN  IF P = {} THEN <<>>
        ELSE LET p == MinOf(P)
             IN  StripChars(Strip(SubSeq(value, p + 2, RunEnd(value, p + 2, stop) - 1)), {DQ})

DkimName       == <<"d","k","i","m","-","s","i","g","n","a","t","u","r","e",":">>
FromName       == <<"f","r","o","m",":">>
ReturnPathName == <<"r","e","t","u","r","n","-","p","a","t","h",":">>

\* C8: dkim_domain and dkim_selector are the d= and s= tags of the value of
\* the first line that starts with dkim-signature:, the value running
\* through the folded continuation lines; later DKIM-Signature headers are
\* never used.
C8_DkimOfFirstHeader ==
    (pc = "parse_done" /\ Truthy(headers)) =>
        LET text == LineFeedsOnly(headers.v)
            p    == FirstLineWith(text, DkimName)
            val  == FoldedValue(text, p + Len(DkimName))
        IN  p # 0 =>
                /\ parsed.dkim_domain = TagValue(val, "d")
                /\ parsed.dkim_selector = TagValue(val, "s")

\* C9: from_domain (returnpath_domain) is the lowercased text after the
\* first @ of the address parsed from the rest of the first from:
\* (return-path:) line, and empty when that address has no @.
C9_AddressDomains ==
    (pc = "parse_done" /\ Truthy(headers)) =>
        LET text == LineFeedsOnly(headers.v)
            f    == FirstLineWith(text, FromName)
            r    == FirstLineWith(text, ReturnPathName)
        IN  /\ f # 0 =>
                 parsed.from_domain = DomainOf(RestOfLine(text, f + Len(FromName)))
            /\ r # 0 =>
                 parsed.returnpath_domain =
                     DomainOf(RestOfLine(text, r + Len(ReturnPathName)))

\* C10: a header text with LF line breaks only and the same text with every
\* LF replaced by CRLF parse to the same record.
C10_CrlfParsesLikeLf ==
    (pc = "parse_done" /\ Truthy(headers) /\ \A i \in 1..Len(headers.v) : headers.v[i] # CR) =>
        parse_headers(Str(WithCrlf(headers.v))) = parsed

====
